---------------------------- MODULE Spec2Model ----------------------------
(***************************************************************************)
(* Match lifecycle of the triper contracts.                                *)
(*                                                                         *)
(* Two on-chain programs share no state:                                   *)
(*   - programs/triper      : Trip accounts and Match records              *)
(*                            (create_trip, deactivate_trip, compress_trip,*)
(*                             initiate_match, record_match, accept_match, *)
(*                             reject_match);                              *)
(*   - programs/triper-mxe  : EncryptedTrip and MatchComputation accounts  *)
(*                            (store_encrypted_trip, compute_match,        *)
(*                             reveal_for_mutual);                         *)
(* the MPC circuit encrypted-ixs/trip_matching.rs computes the four scores *)
(* of a pair of trips (compute_trip_match).                                *)
(*                                                                         *)
(* One action models one instruction.  A transaction is atomic: when an    *)
(* account constraint or a require! fails, nothing is written; the model   *)
(* records the outcome of the last instruction in `last`.  Anchor          *)
(* deserialises the accounts (and runs `init`) in field order and then     *)
(* checks the constraints of the other fields in field order; the error    *)
(* operators below follow that order.                                      *)
(***************************************************************************)
EXTENDS Integers, FiniteSets, Sequences, TLC

(* ------------------------------ bounds --------------------------------- *)

\* at most this many Trip accounts are ever closed by compress_trip
MaxCompressions == 1

\* at most this many Match accounts are created
MaxMatches == 2

\* record_match is not called once a trip's computation_count reached this
MaxComputationCount == 1

\* at most this many EncryptedTrip accounts are created
MaxEncryptedTrips == 2

\* at most this many MatchComputation accounts are created
MaxMatchComputations == 2

(* --------------------------- program constants ------------------------- *)

\* initiate_match.rs: require!(trip_a.match_count < 100)
QuotaCeiling == 100

\* create_trip.rs: require!(encrypted_data.len() <= 2048)
MaxEncryptedData == 2048

\* trip.rs: #[max_len(800)] encrypted_waypoints, the space the account gets
MaxLenWaypoints == 800

(* ------------------------------ inputs --------------------------------- *)

Users == {"alice", "bob", "carol"}

\* the signer of record_match ("called by backend after MXE computes the match")
Authorities == {"backend"}

StartDates == {1}

\* end_date inputs of create_trip, relative to the start date
EndDateOffsets == {0, 1}

\* encrypted_data.len() inputs of create_trip
DataLens == {800, 801, 2049}

\* The Trip PDA: seeds [b"trip", user, start_date]
TripKeys == Users \X StartDates

\* The Match PDA: seeds [b"match", trip_a, trip_b]
MatchKeys == TripKeys \X TripKeys

\* The MatchComputation PDA: seeds [b"match_computation", enc_a, enc_b]
ComputationKeys == TripKeys \X TripKeys

\* MatchResult values record_match is called with (u8 fields)
MatchResults ==
    { [route_score |-> 80, date_score |-> 70, interest_score |-> 60, total_score |-> 73],
      [route_score |-> 255, date_score |-> 0, interest_score |-> 0, total_score |-> 102] }

\* computation_id values record_match is called with ([0; 32] is the initial one)
ComputationIds == {1}

VARIABLES
    trips,          \* triper: Trip accounts by PDA
    matches,        \* triper: Match accounts by PDA
    encTrips,       \* triper-mxe: EncryptedTrip accounts by public trip
    computations,   \* triper-mxe: MatchComputation accounts by PDA
    accepted,       \* history: <<match key, user>> of successful accept_match calls
    compressions,   \* history: the number of Trip accounts closed by compress_trip
    last,           \* the last instruction and its outcome
    engine          \* encrypted-ixs: the run of compute_trip_match, if any

vars == <<trips, matches, encTrips, computations, accepted, compressions, last, engine>>

\* An account map holds the accounts that exist, by address
Live(f) == DOMAIN f

\* the account at address k is created (init) or closed (close)
Put(f, k, v) == (k :> v) @@ f

Del(f, k) == [x \in DOMAIN f \ {k} |-> f[x]]

Outcome(op, err) == [op |-> op, err |-> err]

\* The MPC circuit is not part of the run
NoEngine == [status |-> "off"]

Init ==
    /\ trips = << >>
    /\ matches = << >>
    /\ encTrips = << >>
    /\ computations = << >>
    /\ accepted = {}
    /\ compressions = 0
    /\ last = Outcome("none", "Ok")
    /\ engine = NoEngine

(* ============================ programs/triper ========================== *)

(* ------------------------------ create_trip ---------------------------- *)

\* Variant without the handler's date check
CreateTripErrNoDateCheck(user, start_date, end_date, data_len) ==
    IF <<user, start_date>> \in DOMAIN trips THEN "AccountAlreadyInUse"
    ELSE IF ~(data_len <= MaxEncryptedData) THEN "EncryptedDataTooLarge"
    ELSE IF data_len > MaxLenWaypoints THEN "AccountDidNotSerialize"
    ELSE "Ok"

CreateTripErr(user, start_date, end_date, data_len) ==
    IF <<user, start_date>> \in DOMAIN trips THEN "AccountAlreadyInUse"
    ELSE IF ~(data_len <= MaxEncryptedData) THEN "EncryptedDataTooLarge"
    ELSE IF ~(end_date > start_date) THEN "InvalidDateRange"
    ELSE IF data_len > MaxLenWaypoints THEN "AccountDidNotSerialize"
    ELSE "Ok"

CreateTrip(user, start_date, end_date, data_len) ==
    LET e == CreateTripErr(user, start_date, end_date, data_len)
        key == <<user, start_date>>
    IN  /\ last' = Outcome("create_trip", e)
        /\ trips' = IF e = "Ok"
                    THEN Put(trips, key,
                            [ owner |-> user,
                              start_date |-> start_date,
                              end_date |-> end_date,
                              data_len |-> data_len,
                              is_active |-> TRUE,
                              match_count |-> 0,
                              computation_count |-> 0 ])
                    ELSE trips
        /\ UNCHANGED <<matches, encTrips, computations, accepted, compressions>>

(* ---------------------------- deactivate_trip -------------------------- *)

\* Variant without the owner constraint
DeactivateTripErrAnyUser(user, t) ==
    IF t \notin DOMAIN trips THEN "AccountNotInitialized"
    ELSE IF ~trips[t].is_active THEN "TripNotActive"
    ELSE "Ok"

DeactivateTripErr(user, t) ==
    IF t \notin DOMAIN trips THEN "AccountNotInitialized"
    ELSE IF trips[t].owner # user THEN "Unauthorized"
    ELSE IF ~trips[t].is_active THEN "TripNotActive"
    ELSE "Ok"

DeactivateTrip(user, t) ==
    LET e == DeactivateTripErr(user, t)
    IN  /\ last' = Outcome("deactivate_trip", e)
        /\ trips' = IF e = "Ok"
                    THEN [trips EXCEPT ![t].is_active = FALSE]
                    ELSE trips
        /\ UNCHANGED <<matches, encTrips, computations, accepted, compressions>>

(* ----------------------------- compress_trip --------------------------- *)

CompressTripErr(owner, t) ==
    IF t \notin DOMAIN trips THEN "AccountNotInitialized"
    ELSE IF trips[t].owner # owner THEN "Unauthorized"
    ELSE "Ok"

\* The traditional account is closed (close = owner); its copy lives in the
\* Light Protocol state tree, outside the two programs' accounts.
CompressTrip(owner, t) ==
    LET e == CompressTripErr(owner, t)
    IN  /\ e = "Ok" => compressions < MaxCompressions
        /\ last' = Outcome("compress_trip", e)
        /\ trips' = IF e = "Ok"
                    THEN Del(trips, t)
                    ELSE trips
        /\ compressions' = IF e = "Ok" THEN compressions + 1 ELSE compressions
        /\ UNCHANGED <<matches, encTrips, computations, accepted>>

(* ----------------------------- initiate_match -------------------------- *)

\* Variant in which the requester's consent is recorded at creation
NewMatchPreAccepted(a, b) ==
    [ trip_a |-> a,
      trip_b |-> b,
      total_score |-> 0,
      route_score |-> 0,
      date_score |-> 0,
      interest_score |-> 0,
      status |-> "Pending",
      trip_a_accepted |-> TRUE,
      trip_b_accepted |-> FALSE,
      computation_id |-> 0 ]

NewMatch(a, b) ==
    [ trip_a |-> a,
      trip_b |-> b,
      total_score |-> 0,
      route_score |-> 0,
      date_score |-> 0,
      interest_score |-> 0,
      status |-> "Pending",
      trip_a_accepted |-> FALSE,
      trip_b_accepted |-> FALSE,
      computation_id |-> 0 ]

\* Variant without the handler's "can't match with yourself" check
InitiateMatchErrNoSelfCheck(payer, a, b) ==
    IF a \notin DOMAIN trips \/ b \notin DOMAIN trips THEN "AccountNotInitialized"
    ELSE IF <<a, b>> \in DOMAIN matches THEN "AccountAlreadyInUse"
    ELSE IF trips[a].owner # payer THEN "Unauthorized"
    ELSE IF ~(trips[a].match_count < QuotaCeiling) THEN "QuotaExceeded"
    ELSE "Ok"

InitiateMatchErr(payer, a, b) ==
    IF a \notin DOMAIN trips \/ b \notin DOMAIN trips THEN "AccountNotInitialized"
    ELSE IF <<a, b>> \in DOMAIN matches THEN "AccountAlreadyInUse"
    ELSE IF trips[a].owner # payer THEN "Unauthorized"
    ELSE IF ~(trips[a].owner # trips[b].owner) THEN "SameTripMatch"
    ELSE IF ~(trips[a].match_count < QuotaCeiling) THEN "QuotaExceeded"
    ELSE "Ok"

\* Variant that is not atomic: the counters of two existing Trips are
\* incremented although the instruction fails
InitiateMatchCountsFirst(payer, a, b) ==
    LET e == InitiateMatchErr(payer, a, b)
        counted == e = "Ok" \/ (a \in DOMAIN trips /\ b \in DOMAIN trips)
    IN  /\ e = "Ok" => Cardinality(Live(matches)) < MaxMatches
        /\ last' = Outcome("initiate_match", e)
        /\ matches' = IF e = "Ok"
                      THEN Put(matches, <<a, b>>, NewMatch(a, b))
                      ELSE matches
        /\ trips' = IF counted
                    THEN [t \in DOMAIN trips |->
                            IF t \in {a, b}
                            THEN [trips[t] EXCEPT !.match_count = @ + 1]
                            ELSE trips[t]]
                    ELSE trips
        /\ UNCHANGED <<encTrips, computations, accepted, compressions>>

InitiateMatch(payer, a, b) ==
    LET e == InitiateMatchErr(payer, a, b)
    IN  /\ e = "Ok" => Cardinality(Live(matches)) < MaxMatches
        /\ last' = Outcome("initiate_match", e)
        /\ matches' = IF e = "Ok"
                      THEN Put(matches, <<a, b>>, NewMatch(a, b))
                      ELSE matches
        /\ trips' = IF e = "Ok"
                    THEN [t \in DOMAIN trips |->
                            IF t \in {a, b}
                            THEN [trips[t] EXCEPT !.match_count = @ + 1]
                            ELSE trips[t]]
                    ELSE trips
        /\ UNCHANGED <<encTrips, computations, accepted, compressions>>

(* ------------------------------ record_match --------------------------- *)

\* Variant without the is_active constraints on trip_a and trip_b
RecordMatchErrNoActiveCheck(authority, k, a, b) ==
    IF k \notin DOMAIN matches \/ a \notin DOMAIN trips \/ b \notin DOMAIN trips
    THEN "AccountNotInitialized"
    ELSE IF k # <<a, b>> THEN "ConstraintSeeds"
    ELSE "Ok"

\* k is the Match account passed as match_account; its seeds constraint
\* pins it to the PDA of (trip_a, trip_b).
RecordMatchErr(authority, k, a, b) ==
    IF k \notin DOMAIN matches \/ a \notin DOMAIN trips \/ b \notin DOMAIN trips
    THEN "AccountNotInitialized"
    ELSE IF k # <<a, b>> THEN "ConstraintSeeds"
    ELSE IF ~trips[a].is_active THEN "ConstraintRaw"
    ELSE IF ~trips[b].is_active THEN "ConstraintRaw"
    ELSE "Ok"

RecordMatch(authority, k, a, b, match_result, computation_id) ==
    LET e == RecordMatchErr(authority, k, a, b)
    IN  /\ e = "Ok" => /\ trips[a].computation_count < MaxComputationCount
                       /\ trips[b].computation_count < MaxComputationCount
        /\ last' = Outcome("record_match", e)
        /\ matches' = IF e = "Ok"
                      THEN [matches EXCEPT ![k] =
                              [@ EXCEPT !.total_score = match_result.total_score,
                                        !.route_score = match_result.route_score,
                                        !.date_score = match_result.date_score,
                                        !.interest_score = match_result.interest_score,
                                        !.computation_id = computation_id,
                                        !.status = "Pending"]]
                      ELSE matches
        /\ trips' = IF e = "Ok"
                    THEN [t \in DOMAIN trips |->
                            IF t \in {a, b}
                            THEN [trips[t] EXCEPT !.computation_count = @ + 1]
                            ELSE trips[t]]
                    ELSE trips
        /\ UNCHANGED <<encTrips, computations, accepted, compressions>>

(* ------------------------------ accept_match --------------------------- *)

\* Variant without the status constraint on match_account
AcceptOutcomeAnyStatus(m, trip, user, t) ==
    IF ~(trip.owner = user) THEN "Unauthorized"
    ELSE IF user = trip.owner /\ t = m.trip_a THEN "Ok"
    ELSE IF user = trip.owner /\ t = m.trip_b THEN "Ok"
    ELSE "Unauthorized"

\* The constraints of AcceptMatch and the handler's ownership test, on the
\* Match account m and the Trip account trip at address t
AcceptOutcome(m, trip, user, t) ==
    IF ~(m.status = "Pending") THEN "InvalidMatchStatus"
    ELSE IF ~(trip.owner = user) THEN "Unauthorized"
    ELSE IF user = trip.owner /\ t = m.trip_a THEN "Ok"
    ELSE IF user = trip.owner /\ t = m.trip_b THEN "Ok"
    ELSE "Unauthorized"

AcceptMatchErr(user, k, t) ==
    IF k \notin DOMAIN matches \/ t \notin DOMAIN trips THEN "AccountNotInitialized"
    ELSE AcceptOutcome(matches[k], trips[t], user, t)

\* Variant in which one accept sets both flags
AcceptFlagsBoth(m, user, t) ==
    [m EXCEPT !.trip_a_accepted = TRUE, !.trip_b_accepted = TRUE]

\* Variant in which the accept for trip_a clears the other party's flag
AcceptFlagsExclusive(m, user, t) ==
    IF t = m.trip_a
    THEN [m EXCEPT !.trip_a_accepted = TRUE, !.trip_b_accepted = FALSE]
    ELSE [m EXCEPT !.trip_b_accepted = TRUE]

\* The flags written by the handler's if / else-if
AcceptFlags(m, user, t) ==
    IF t = m.trip_a
    THEN [m EXCEPT !.trip_a_accepted = TRUE]
    ELSE [m EXCEPT !.trip_b_accepted = TRUE]

\* Variant in which the first accept already sets Mutual
AcceptStatusEager(m) == [m EXCEPT !.status = "Mutual"]

\* "If both parties accepted, update status to Mutual"
AcceptStatus(m) ==
    IF m.trip_a_accepted /\ m.trip_b_accepted
    THEN [m EXCEPT !.status = "Mutual"]
    ELSE m

AcceptMatch(user, k, t) ==
    LET e == AcceptMatchErr(user, k, t)
    IN  /\ last' = Outcome("accept_match", e)
        /\ matches' = IF e = "Ok"
                      THEN [matches EXCEPT ![k] = AcceptStatus(AcceptFlags(@, user, t))]
                      ELSE matches
        /\ accepted' = IF e = "Ok" THEN accepted \cup {<<k, user>>} ELSE accepted
        /\ UNCHANGED <<trips, encTrips, computations, compressions>>

(* ------------------------------ reject_match --------------------------- *)

\* Variant without the handler's test that the trip is one of the pair
RejectMatchErrAnyTrip(user, k, t) ==
    IF k \notin DOMAIN matches \/ t \notin DOMAIN trips THEN "AccountNotInitialized"
    ELSE IF ~(matches[k].status = "Pending") THEN "InvalidMatchStatus"
    ELSE IF ~(trips[t].owner = user) THEN "Unauthorized"
    ELSE "Ok"

RejectMatchErr(user, k, t) ==
    IF k \notin DOMAIN matches \/ t \notin DOMAIN trips THEN "AccountNotInitialized"
    ELSE IF ~(matches[k].status = "Pending") THEN "InvalidMatchStatus"
    ELSE IF ~(trips[t].owner = user) THEN "Unauthorized"
    ELSE IF ~(t = matches[k].trip_a \/ t = matches[k].trip_b) THEN "Unauthorized"
    ELSE "Ok"

RejectMatch(user, k, t) ==
    LET e == RejectMatchErr(user, k, t)
    IN  /\ last' = Outcome("reject_match", e)
        /\ matches' = IF e = "Ok"
                      THEN [matches EXCEPT ![k].status = "Rejected"]
                      ELSE matches
        /\ UNCHANGED <<trips, encTrips, computations, accepted, compressions>>

(* ========================== programs/triper-mxe ======================== *)

(* -------------------------- store_encrypted_trip ----------------------- *)

\* public_trip is an UncheckedAccount: any key, here the key of a Trip PDA.
StoreEncryptedTripErr(owner, public_trip) ==
    IF public_trip \in DOMAIN encTrips THEN "AccountAlreadyInUse" ELSE "Ok"

StoreEncryptedTrip(owner, public_trip) ==
    LET e == StoreEncryptedTripErr(owner, public_trip)
    IN  /\ e = "Ok" => Cardinality(Live(encTrips)) < MaxEncryptedTrips
        /\ last' = Outcome("store_encrypted_trip", e)
        /\ encTrips' = IF e = "Ok"
                       THEN Put(encTrips, public_trip,
                               [ owner |-> owner,
                                 public_trip |-> public_trip,
                                 is_active |-> TRUE ])
                       ELSE encTrips
        /\ UNCHANGED <<trips, matches, computations, accepted, compressions>>

(* ------------------------------ compute_match -------------------------- *)

NewComputation(a, b) ==
    [ trip_a |-> a,
      trip_b |-> b,
      status |-> "Pending",
      match_score |-> "None",
      route_score |-> "None",
      date_score |-> "None",
      interest_score |-> "None" ]

\* a, b name the EncryptedTrip accounts by their public trip
ComputeMatchErr(requester, a, b) ==
    IF <<a, b>> \in DOMAIN computations THEN "AccountAlreadyInUse"
    ELSE IF a \notin DOMAIN encTrips \/ b \notin DOMAIN encTrips THEN "AccountNotInitialized"
    ELSE IF ~encTrips[a].is_active THEN "ConstraintRaw"
    ELSE IF ~encTrips[b].is_active THEN "ConstraintRaw"
    ELSE "Ok"

ComputeMatch(requester, a, b) ==
    LET e == ComputeMatchErr(requester, a, b)
    IN  /\ e = "Ok" => Cardinality(Live(computations)) < MaxMatchComputations
        /\ last' = Outcome("compute_match", e)
        /\ computations' = IF e = "Ok"
                           THEN Put(computations, <<a, b>>, NewComputation(a, b))
                           ELSE computations
        /\ UNCHANGED <<trips, matches, encTrips, accepted, compressions>>

(* ---------------------------- reveal_for_mutual ------------------------ *)

\* No constraint ties the instruction to a Match record ("TODO: Add
\* constraint to verify mutual match in main triper program").
RevealForMutualErr(requester, t) ==
    IF t \notin DOMAIN encTrips THEN "AccountNotInitialized" ELSE "Ok"

\* The handler logs the trip's owner and payload sizes and writes nothing.
RevealForMutual(requester, t) ==
    LET e == RevealForMutualErr(requester, t)
    IN  /\ last' = Outcome("reveal_for_mutual", e)
        /\ UNCHANGED <<trips, matches, encTrips, computations, accepted, compressions>>

(* ------------------- confidential.rs (programs/triper) ----------------- *)

\* The inner loop `for (i, cell_a) in cells_a.iter().enumerate()` from index
\* i on: <<visited, overlap_count>> after the loop, which breaks at the
\* first unvisited cell of A equal to cell_b
RECURSIVE ConfidentialInnerLoop(_, _, _, _, _)
ConfidentialInnerLoop(cells_a, cell_b, i, visited, overlap_count) ==
    IF i > Len(cells_a)
    THEN <<visited, overlap_count>>
    ELSE IF ~visited[i] /\ cells_a[i] = cell_b
    THEN <<[visited EXCEPT ![i] = TRUE], overlap_count + 1>>
    ELSE ConfidentialInnerLoop(cells_a, cell_b, i + 1, visited, overlap_count)

\* The outer loop `for cell_b in &cells_b` from index n on: overlap_count
RECURSIVE ConfidentialOuterLoop(_, _, _, _, _)
ConfidentialOuterLoop(cells_a, cells_b, n, visited, overlap_count) ==
    IF n > Len(cells_b)
    THEN overlap_count
    ELSE LET r == ConfidentialInnerLoop(cells_a, cells_b[n], 1, visited, overlap_count)
         IN  ConfidentialOuterLoop(cells_a, cells_b, n + 1, r[1], r[2])

\* confidential.rs compute_route_similarity on the grid cells of the two
\* routes (usize arithmetic, `as u8`)
confidential_route_similarity(cells_a, cells_b) ==
    LET overlap_count ==
            ConfidentialOuterLoop(cells_a, cells_b, 1,
                                  [i \in 1..Len(cells_a) |-> FALSE], 0)
        unique_cells == Len(cells_a) + Len(cells_b) - overlap_count
    IN  IF unique_cells = 0
        THEN 0
        ELSE (((overlap_count * 100) \div unique_cells)) % 256

(* --------------------------------- utils ------------------------------- *)

\* utils.rs aggregate_match_score: u32 arithmetic on three u8 scores,
\* `.min(100) as u8`
aggregate_match_score(route_score, date_score, interest_score) ==
    LET weighted_score ==
            (route_score * 40 + date_score * 35 + interest_score * 25) \div 100
    IN  IF weighted_score < 100 THEN weighted_score ELSE 100

\* aggregate_match_score is called on the three scores handed to it
AggregateMatchScore ==
    /\ engine.status = "scored"
    /\ engine' = [engine EXCEPT
                    !.status = "aggregated",
                    !.total_score = aggregate_match_score(engine.route_score,
                                                          engine.date_score,
                                                          engine.interest_score)]
    /\ UNCHANGED <<trips, matches, encTrips, computations, accepted,
                   compressions, last>>

(* ===================== encrypted-ixs/trip_matching.rs ================== *)

\* Slots of a waypoint array; stands for MAX_WAYPOINTS = 20
WaypointCapacity == 3

\* Slots of an interest vector; stands for MAX_INTERESTS = 32
InterestCapacity == 4

\* Width in bits of the signed integers of compute_date_overlap; stands for
\* the 64 bits of i64
DateBits == 16

\* H3 cell indices
Cells == {1, 2}

I64Min == -(2^(DateBits - 1))

I64Max == 2^(DateBits - 1) - 1

\* A value of the width: x reduced modulo 2^DateBits into I64Min..I64Max
WrapI64(x) == ((x - I64Min) % (2^DateBits)) + I64Min

FitsI64(x) == I64Min <= x /\ x <= I64Max

Abs(x) == IF x < 0 THEN -x ELSE x

\* Rust's integer division: the quotient truncated toward zero
TruncDiv(x, y) ==
    IF (x >= 0) = (y > 0) THEN Abs(x) \div Abs(y) ELSE -(Abs(x) \div Abs(y))

\* `as u8`: the low eight bits
AsU8(x) == x % 256

(* ------------------------ compute_route_similarity --------------------- *)

\* The inner loop `for j in 0..MAX_WAYPOINTS` for one cell of B, from slot j
\* on: <<visited, intersection_count>> after the loop.  There is no break:
\* every unvisited valid slot of A that equals cell_b is counted.
\* Variant that does not look at `visited`: a slot of A is counted once for
\* every equal cell of B
RECURSIVE RouteInnerLoopNoVisited(_, _, _, _, _, _)
RouteInnerLoopNoVisited(waypoints_a, count_a, cell_b, j, visited, intersection_count) ==
    IF j > WaypointCapacity
    THEN <<visited, intersection_count>>
    ELSE LET is_valid_a == j <= count_a
             matches_j == is_valid_a /\ waypoints_a[j] = cell_b
         IN  RouteInnerLoopNoVisited(waypoints_a, count_a, cell_b, j + 1,
                            visited,
                            IF matches_j THEN intersection_count + 1
                                         ELSE intersection_count)

RECURSIVE RouteInnerLoop(_, _, _, _, _, _)
RouteInnerLoop(waypoints_a, count_a, cell_b, j, visited, intersection_count) ==
    IF j > WaypointCapacity
    THEN <<visited, intersection_count>>
    ELSE LET is_valid_a == j <= count_a
             matches_j == is_valid_a /\ ~visited[j] /\ waypoints_a[j] = cell_b
         IN  RouteInnerLoop(waypoints_a, count_a, cell_b, j + 1,
                            IF matches_j THEN [visited EXCEPT ![j] = TRUE]
                                         ELSE visited,
                            IF matches_j THEN intersection_count + 1
                                         ELSE intersection_count)

\* The outer loop `for i in 0..MAX_WAYPOINTS` from slot i on: the final
\* intersection_count
RECURSIVE RouteOuterLoop(_, _, _, _, _, _, _)
RouteOuterLoop(waypoints_a, count_a, waypoints_b, count_b, i, visited, intersection_count) ==
    IF i > WaypointCapacity
    THEN intersection_count
    ELSE LET is_valid_b == i <= count_b
             r == RouteInnerLoop(waypoints_a, count_a, waypoints_b[i], 1,
                                 visited, intersection_count)
         IN  IF is_valid_b
             THEN RouteOuterLoop(waypoints_a, count_a, waypoints_b, count_b,
                                 i + 1, r[1], r[2])
             ELSE RouteOuterLoop(waypoints_a, count_a, waypoints_b, count_b,
                                 i + 1, visited, intersection_count)

\* The number of iterations of the inner loop body (lines 68-75) the two
\* loops execute, from slot i of the outer loop on: the inner loop stands
\* inside `if is_valid_b`, so an outer iteration with i >= count_b runs none
RECURSIVE RouteInnerIterations(_, _)
RouteInnerIterations(count_b, i) ==
    IF i > WaypointCapacity
    THEN 0
    ELSE LET is_valid_b == i <= count_b
         IN  (IF is_valid_b THEN WaypointCapacity ELSE 0)
                + RouteInnerIterations(count_b, i + 1)

RouteIntersection(waypoints_a, count_a, waypoints_b, count_b) ==
    RouteOuterLoop(waypoints_a, count_a, waypoints_b, count_b, 1,
                   [j \in 1..WaypointCapacity |-> FALSE], 0)

\* Variant that divides by |A| + |B| without taking the intersection off
RouteSimilarityOverSum(waypoints_a, count_a, waypoints_b, count_b) ==
    LET has_waypoints == count_a > 0 /\ count_b > 0
        intersection_count ==
            RouteIntersection(waypoints_a, count_a, waypoints_b, count_b)
        union_count == count_a + count_b
        union_nonzero == IF union_count = 0 THEN 1 ELSE union_count
        jaccard_percentage == (intersection_count * 100) \div union_nonzero
        clamped == IF jaccard_percentage > 100 THEN 100 ELSE jaccard_percentage
    IN  IF has_waypoints THEN AsU8(clamped) ELSE 0

compute_route_similarity(waypoints_a, count_a, waypoints_b, count_b) ==
    LET has_waypoints == count_a > 0 /\ count_b > 0
        intersection_count ==
            RouteIntersection(waypoints_a, count_a, waypoints_b, count_b)
        union_count == count_a + count_b - intersection_count
        union_nonzero == IF union_count = 0 THEN 1 ELSE union_count
        jaccard_percentage == (intersection_count * 100) \div union_nonzero
        clamped == IF jaccard_percentage > 100 THEN 100 ELSE jaccard_percentage
    IN  IF has_waypoints THEN AsU8(clamped) ELSE 0

(* -------------------------- compute_date_overlap ----------------------- *)

\* The arithmetic of compute_date_overlap in the integer width: the value
\* returned when overflow wraps, and whether any operation overflowed (a
\* build with overflow checks panics there)
DateOverlapSteps(start_a, end_a, start_b, end_b) ==
    LET overlap_start == IF start_a > start_b THEN start_a ELSE start_b
        overlap_end == IF end_a < end_b THEN end_a ELSE end_b
        has_overlap == overlap_end >= overlap_start
        difference == IF has_overlap THEN overlap_end - overlap_start ELSE 0
        overlap_duration == WrapI64(difference)
        duration_a == WrapI64(end_a - start_a)
        duration_b == WrapI64(end_b - start_b)
        sum == WrapI64(duration_a + duration_b)
        avg_duration == TruncDiv(sum, 2)
        avg_duration_nonzero == IF avg_duration = 0 THEN 1 ELSE avg_duration
        product == WrapI64(overlap_duration * 100)
        percentage == WrapI64(TruncDiv(product, avg_duration_nonzero))
        clamped == IF percentage > 100 THEN 100 ELSE percentage
    IN  [ value |-> AsU8(clamped),
          overflowed |->
              \/ ~FitsI64(difference)
              \/ ~FitsI64(end_a - start_a)
              \/ ~FitsI64(end_b - start_b)
              \/ ~FitsI64(duration_a + duration_b)
              \/ ~FitsI64(overlap_duration * 100)
              \/ ~FitsI64(TruncDiv(product, avg_duration_nonzero)) ]

compute_date_overlap(start_a, end_a, start_b, end_b) ==
    DateOverlapSteps(start_a, end_a, start_b, end_b).value

(* ----------------------- compute_interest_similarity ------------------- *)

\* The loop `for i in 0..32` from slot i on:
\* <<common_count, total_count>> after the loop
RECURSIVE InterestLoop(_, _, _, _, _)
InterestLoop(interests_a, interests_b, i, common_count, total_count) ==
    IF i > InterestCapacity
    THEN <<common_count, total_count>>
    ELSE IF interests_a[i] /\ interests_b[i]
    THEN InterestLoop(interests_a, interests_b, i + 1,
                      common_count + 1, total_count + 1)
    ELSE IF interests_a[i] \/ interests_b[i]
    THEN InterestLoop(interests_a, interests_b, i + 1,
                      common_count, total_count + 1)
    ELSE InterestLoop(interests_a, interests_b, i + 1,
                      common_count, total_count)

\* Variant that divides by the number of interests of A alone
InterestSimilarityOverA(interests_a, interests_b) ==
    LET counts == InterestLoop(interests_a, interests_b, 1, 0, 0)
        common_count == counts[1]
        total_count == InterestLoop(interests_a, interests_a, 1, 0, 0)[2]
        total_nonzero == IF total_count = 0 THEN 1 ELSE total_count
    IN  IF total_count = 0
        THEN 100
        ELSE AsU8((common_count * 100) \div total_nonzero)

\* Variant without the case for two empty vectors
InterestSimilarityNoEmptyCase(interests_a, interests_b) ==
    LET counts == InterestLoop(interests_a, interests_b, 1, 0, 0)
        common_count == counts[1]
        total_count == counts[2]
        total_nonzero == IF total_count = 0 THEN 1 ELSE total_count
    IN  AsU8((common_count * 100) \div total_nonzero)

compute_interest_similarity(interests_a, interests_b) ==
    LET counts == InterestLoop(interests_a, interests_b, 1, 0, 0)
        common_count == counts[1]
        total_count == counts[2]
        total_nonzero == IF total_count = 0 THEN 1 ELSE total_count
    IN  IF total_count = 0
        THEN 100
        ELSE AsU8((common_count * 100) \div total_nonzero)

(* --------------------------- compute_trip_match ------------------------ *)

\* Variant that weighs the three scores 35/40/25
ComputeTripMatchSwappedWeights(trip_a, trip_b) ==
    LET route_score ==
            compute_route_similarity(trip_a.waypoints, trip_a.waypoint_count,
                                     trip_b.waypoints, trip_b.waypoint_count)
        date_score ==
            compute_date_overlap(trip_a.start_date, trip_a.end_date,
                                 trip_b.start_date, trip_b.end_date)
        interest_score ==
            compute_interest_similarity(trip_a.interests, trip_b.interests)
        total_score ==
            ((route_score * 35) + (date_score * 40) + (interest_score * 25))
               \div 100
    IN  <<route_score, date_score, interest_score, AsU8(total_score)>>

\* The four revealed scores <<route, date, interest, total>>
compute_trip_match(trip_a, trip_b) ==
    LET route_score ==
            compute_route_similarity(trip_a.waypoints, trip_a.waypoint_count,
                                     trip_b.waypoints, trip_b.waypoint_count)
        date_score ==
            compute_date_overlap(trip_a.start_date, trip_a.end_date,
                                 trip_b.start_date, trip_b.end_date)
        interest_score ==
            compute_interest_similarity(trip_a.interests, trip_b.interests)
        total_score ==
            ((route_score * 40) + (date_score * 35) + (interest_score * 25))
               \div 100
    IN  <<route_score, date_score, interest_score, AsU8(total_score)>>

\* An integer operation of the run overflows its width
TripMatchOverflows(trip_a, trip_b) ==
    DateOverlapSteps(trip_a.start_date, trip_a.end_date,
                     trip_b.start_date, trip_b.end_date).overflowed

\* The circuit runs on the two queued trips.  Where an operation overflows,
\* a build with overflow checks aborts and a build without them wraps.
ComputeTripMatch ==
    /\ engine.status = "queued"
    /\ engine' =
          IF engine.overflow_checks /\ TripMatchOverflows(engine.trip_a, engine.trip_b)
          THEN [engine EXCEPT !.status = "panicked"]
          ELSE [engine EXCEPT !.status = "revealed",
                              !.scores = compute_trip_match(engine.trip_a,
                                                            engine.trip_b),
                              !.comparisons =
                                  RouteInnerIterations(
                                      engine.trip_b.waypoint_count, 1)]
    /\ UNCHANGED <<trips, matches, encTrips, computations, accepted,
                   compressions, last>>

(* ------------------------------ specification -------------------------- *)

\* No transaction is being reported: the next instruction may be sent
Idle == last.op = "none"

\* The transaction's result (Ok or the error) has been returned to the caller
Return ==
    /\ ~Idle
    /\ last' = Outcome("none", "Ok")
    /\ UNCHANGED <<trips, matches, encTrips, computations, accepted, compressions>>

\* The instructions of programs/triper
TriperNext ==
    \/ \E u \in Users, s \in StartDates, d \in EndDateOffsets, n \in DataLens :
          CreateTrip(u, s, s + d, n)
    \/ \E u \in Users, t \in TripKeys : DeactivateTrip(u, t)
    \/ \E u \in Users, a \in TripKeys, b \in TripKeys : InitiateMatch(u, a, b)
    \/ \E u \in Authorities, a \in TripKeys, b \in TripKeys :
          \E k \in {<<a, b>>, <<b, a>>}, r \in MatchResults, c \in ComputationIds :
             RecordMatch(u, k, a, b, r, c)
    \/ \E u \in Users, k \in DOMAIN matches, t \in TripKeys : AcceptMatch(u, k, t)
    \/ \E u \in Users, k \in DOMAIN matches, t \in TripKeys : RejectMatch(u, k, t)

\* The instructions of programs/triper-mxe
MxeNext ==
    \/ \E u \in Users, t \in TripKeys : StoreEncryptedTrip(u, t)
    \/ \E u \in Users, a \in TripKeys, b \in TripKeys : ComputeMatch(u, a, b)
    \/ \E u \in Users, t \in TripKeys : RevealForMutual(u, t)

Next ==
    \/ Idle /\ TriperNext /\ UNCHANGED engine
    \/ Return /\ UNCHANGED engine

\* The match lifecycle of programs/triper, from no account at all
Spec == Init /\ [][Next]_vars

\* The consent and disclosure phase across both programs, from the state
\* create_trip (alice), create_trip (bob), initiate_match (alice, bob) leave
SystemTrip(u) ==
    [ owner |-> u,
      start_date |-> 1,
      end_date |-> 2,
      data_len |-> 800,
      is_active |-> TRUE,
      match_count |-> 1,
      computation_count |-> 0 ]

SystemInit ==
    /\ trips = Put(Put(<< >>, <<"alice", 1>>, SystemTrip("alice")),
                   <<"bob", 1>>, SystemTrip("bob"))
    /\ matches = Put(<< >>, <<<<"alice", 1>>, <<"bob", 1>>>>,
                     NewMatch(<<"alice", 1>>, <<"bob", 1>>))
    /\ encTrips = << >>
    /\ computations = << >>
    /\ accepted = {}
    /\ compressions = 0
    /\ last = Outcome("none", "Ok")
    /\ engine = NoEngine

ConsentNext ==
    \/ \E u \in Authorities, a \in TripKeys, b \in TripKeys :
          \E k \in {<<a, b>>, <<b, a>>}, r \in MatchResults, c \in ComputationIds :
             RecordMatch(u, k, a, b, r, c)
    \/ \E u \in Users, k \in DOMAIN matches, t \in TripKeys : AcceptMatch(u, k, t)
    \/ \E u \in Users, k \in DOMAIN matches, t \in TripKeys : RejectMatch(u, k, t)

SystemNext ==
    \/ Idle /\ ConsentNext /\ UNCHANGED engine
    \/ Idle /\ MxeNext /\ UNCHANGED engine
    \/ Return /\ UNCHANGED engine

SystemSpec == SystemInit /\ [][SystemNext]_vars

(* --------------------------- initiate scenario ------------------------- *)

\* Three Trip accounts, two of them of one owner (two start dates), so that
\* initiate_match meets a pair of plans of the same owner
InitiateTrips == {<<"alice", 1>>, <<"alice", 2>>, <<"bob", 1>>}

\* match_count of a Trip at the start of the scenario: fresh, one below the
\* ceiling of initiate_match, and at the ceiling.  The Match records behind
\* a count of 99 or 100 pair the Trip with Trips outside InitiateTrips.
InitiateCounts == {0, QuotaCeiling - 1, QuotaCeiling}

InitiateTrip(t, n) ==
    [ owner |-> t[1],
      start_date |-> t[2],
      end_date |-> t[2] + 1,
      data_len |-> MaxLenWaypoints,
      is_active |-> TRUE,
      match_count |-> n,
      computation_count |-> 0 ]

InitiateInit ==
    /\ \E n \in [InitiateTrips -> InitiateCounts] :
          trips = [t \in InitiateTrips |-> InitiateTrip(t, n[t])]
    /\ matches = << >>
    /\ encTrips = << >>
    /\ computations = << >>
    /\ accepted = {}
    /\ compressions = 0
    /\ last = Outcome("none", "Ok")
    /\ engine = NoEngine

InitiateNext ==
    \/ Idle /\ \E p \in Users, a \in InitiateTrips, b \in InitiateTrips :
                  InitiateMatch(p, a, b) /\ UNCHANGED engine
    \/ Idle /\ (\E u \in Users, t \in InitiateTrips : DeactivateTrip(u, t))
            /\ UNCHANGED engine
    \/ Return /\ UNCHANGED engine

InitiateSpec == InitiateInit /\ [][InitiateNext]_vars

(* ----------------------------- compress scenario ----------------------- *)

\* The initiate scenario with compress_trip: Trips are paired, deactivated
\* and compressed in any order
CompressNext ==
    \/ Idle /\ \E p \in Users, a \in InitiateTrips, b \in InitiateTrips :
                  InitiateMatch(p, a, b) /\ UNCHANGED engine
    \/ Idle /\ (\E u \in Users, t \in InitiateTrips : DeactivateTrip(u, t))
            /\ UNCHANGED engine
    \/ Idle /\ (\E u \in Users, t \in InitiateTrips : CompressTrip(u, t))
            /\ UNCHANGED engine
    \/ Return /\ UNCHANGED engine

CompressSpec == InitiateInit /\ [][CompressNext]_vars

(* ----------------------------- engine scenario ------------------------- *)

\* A duration whose hundredfold no longer fits the integer width (for i64:
\* 2^57 seconds)
BigDate == 2^(DateBits - 7)

\* Unix timestamps
DateValues == {0, 5, 10, 15, BigDate}

\* TripData with no waypoints, no interests and the dates 0 to 10
BaseTrip ==
    [ waypoints |-> [j \in 1..WaypointCapacity |-> 1],
      waypoint_count |-> 0,
      start_date |-> 0,
      end_date |-> 10,
      interests |-> [i \in 1..InterestCapacity |-> FALSE] ]

\* The largest waypoint_count (u8)
U8Max == 2^8 - 1

\* waypoint_count values: every count within the capacity, and two counts
\* past it, which the circuit does not refuse
WaypointCounts == (0..WaypointCapacity) \cup {WaypointCapacity + 1, U8Max}

\* Every waypoint array over Cells with every count
RouteTrips ==
    { [BaseTrip EXCEPT !.waypoints = w, !.waypoint_count = c] :
         w \in [1..WaypointCapacity -> Cells], c \in WaypointCounts }

\* Every date range with end >= start
DateTrips ==
    { [BaseTrip EXCEPT !.start_date = d[1], !.end_date = d[2]] :
         d \in {x \in DateValues \X DateValues : x[2] >= x[1]} }

\* Every interest vector
InterestTrips ==
    { [BaseTrip EXCEPT !.interests = f] :
         f \in [1..InterestCapacity -> BOOLEAN] }

\* Routes [1], [1,2] and [2] (the slots past the count hold cell 1)
MixedRoutes ==
    { <<[j \in 1..WaypointCapacity |-> 1], 1>>,
      <<[j \in 1..WaypointCapacity |-> IF j = 2 THEN 2 ELSE 1], 2>>,
      <<[j \in 1..WaypointCapacity |-> IF j = 1 THEN 2 ELSE 1], 1>> }

MixedDates == {<<0, 5>>, <<0, 10>>, <<5, 15>>, <<10, 15>>}

\* Interest flags {1}, {1,2} and {2}
MixedInterests ==
    { [i \in 1..InterestCapacity |-> i = 1],
      [i \in 1..InterestCapacity |-> i \in {1, 2}],
      [i \in 1..InterestCapacity |-> i = 2] }

\* Trips that differ in route, dates and interests at once
MixedTrips ==
    { [ waypoints |-> r[1],
        waypoint_count |-> r[2],
        start_date |-> d[1],
        end_date |-> d[2],
        interests |-> f ] :
         r \in MixedRoutes, d \in MixedDates, f \in MixedInterests }

\* The pairs of trips handed to the circuit
EnginePairs ==
    (RouteTrips \X RouteTrips) \cup (DateTrips \X DateTrips)
       \cup (InterestTrips \X InterestTrips) \cup (MixedTrips \X MixedTrips)

EngineInit ==
    /\ trips = << >>
    /\ matches = << >>
    /\ encTrips = << >>
    /\ computations = << >>
    /\ accepted = {}
    /\ compressions = 0
    /\ last = Outcome("none", "Ok")
    /\ \E pair \in EnginePairs, checks \in BOOLEAN :
          engine = [ status |-> "queued",
                     trip_a |-> pair[1],
                     trip_b |-> pair[2],
                     overflow_checks |-> checks,
                     scores |-> << >>,
                     comparisons |-> 0 ]

EngineNext == ComputeTripMatch

EngineSpec == EngineInit /\ [][EngineNext]_vars

(* ---------------------------- aggregate scenario ----------------------- *)

\* u8 component scores: those of the unit test of utils.rs, and the largest
TestScores == {0, 60, 70, 80, 100, 2^8 - 1}

AggregateInit ==
    /\ trips = << >>
    /\ matches = << >>
    /\ encTrips = << >>
    /\ computations = << >>
    /\ accepted = {}
    /\ compressions = 0
    /\ last = Outcome("none", "Ok")
    /\ \E r \in TestScores, d \in TestScores, i \in TestScores :
          engine = [ status |-> "scored",
                     route_score |-> r,
                     date_score |-> d,
                     interest_score |-> i,
                     total_score |-> 0 ]

AggregateNext == AggregateMatchScore

AggregateSpec == AggregateInit /\ [][AggregateNext]_vars

(* ================================ claims =============================== *)

\* The owner of the plan at Trip address t: the owner field of the account,
\* which create_trip sets to the user whose key is in the address's seeds
OwnerOfPlan(t) == IF t \in DOMAIN trips THEN trips[t].owner ELSE t[1]

\* The plans of the Match record at address k
PlansOf(k) == {matches[k].trip_a, matches[k].trip_b}

OwnsNeither(u, k) ==
    /\ OwnerOfPlan(matches[k].trip_a) # u
    /\ OwnerOfPlan(matches[k].trip_b) # u

(* C1: reveal succeeds only if the Match record of the revealed plan has   *)
(* status Mutual; in any other status it fails and discloses nothing.      *)
C1_RevealOnlyWhenMutual ==
    [][\A r \in Users, t \in TripKeys :
          (RevealForMutual(r, t) /\ last'.err = "Ok")
             => \E k \in DOMAIN matches :
                   /\ t \in PlansOf(k)
                   /\ matches[k].status = "Mutual"]_vars

(* C2: a Match record with status Mutual has both consent flags true, and  *)
(* a consent flag is true only if the owner of that plan has made a        *)
(* successful accept_match call on the record; the two owners differ, so   *)
(* one owner accepting twice never produces Mutual.                        *)
C2_MutualNeedsBothConsents ==
    \A k \in DOMAIN matches :
        LET m == matches[k]
        IN  /\ m.status = "Mutual" => m.trip_a_accepted /\ m.trip_b_accepted
            /\ m.trip_a_accepted => <<k, OwnerOfPlan(m.trip_a)>> \in accepted
            /\ m.trip_b_accepted => <<k, OwnerOfPlan(m.trip_b)>> \in accepted
            /\ m.status = "Mutual" => OwnerOfPlan(m.trip_a) # OwnerOfPlan(m.trip_b)

\* A record became Mutual by the accept_match call that just returned
C2_Witness ==
    /\ last = Outcome("accept_match", "Ok")
    /\ \E k \in DOMAIN matches : matches[k].status = "Mutual"

\* The record m after user's successful accept_match with the trip at t
AcceptedBy(m, user, t) == AcceptStatus(AcceptFlags(m, user, t))

(* C3: from any state where accept is permitted and neither owner has      *)
(* consented, "owner of plan A accepts, then owner of plan B" and "owner   *)
(* of plan B accepts, then owner of plan A" both succeed and end in the    *)
(* same Match record, with status Mutual; reveal_for_mutual then succeeds  *)
(* on the stored encrypted trip of either plan.                            *)
C3_AcceptsCommute ==
    \A k \in DOMAIN matches :
        LET m == matches[k]
            a == m.trip_a
            b == m.trip_b
        IN  ( /\ m.status = "Pending"
              /\ ~m.trip_a_accepted
              /\ ~m.trip_b_accepted
              /\ a \in DOMAIN trips
              /\ b \in DOMAIN trips )
            => LET ua == trips[a].owner
                   ub == trips[b].owner
                   mA == AcceptedBy(m, ua, a)
                   mAB == AcceptedBy(mA, ub, b)
                   mB == AcceptedBy(m, ub, b)
                   mBA == AcceptedBy(mB, ua, a)
               IN  /\ AcceptOutcome(m, trips[a], ua, a) = "Ok"
                   /\ AcceptOutcome(mA, trips[b], ub, b) = "Ok"
                   /\ AcceptOutcome(m, trips[b], ub, b) = "Ok"
                   /\ AcceptOutcome(mB, trips[a], ua, a) = "Ok"
                   /\ mAB = mBA
                   /\ mAB.status = "Mutual"
                   /\ \A r \in Users, t \in {a, b} \cap DOMAIN encTrips :
                         RevealForMutualErr(r, t) = "Ok"

\* Both owners have accepted, the record is Mutual and a reveal of one of
\* its plans has just succeeded
C3_Witness ==
    /\ last = Outcome("reveal_for_mutual", "Ok")
    /\ \E k \in DOMAIN matches :
          /\ matches[k].status = "Mutual"
          /\ <<k, OwnerOfPlan(matches[k].trip_a)>> \in accepted
          /\ <<k, OwnerOfPlan(matches[k].trip_b)>> \in accepted
          /\ PlansOf(k) \cap DOMAIN encTrips # {}

(* C4: a second initiate_match for a pair of plans for which a Match       *)
(* record already exists, in either argument order, fails (the init of the *)
(* record's address: the code's DuplicateMatch) and leaves the record and  *)
(* both plans' counters unchanged.                                         *)
C4_SecondInitiateFails ==
    [][\A p \in Users, a \in TripKeys, b \in TripKeys :
          (/\ last'.op = "initiate_match"
           /\ \E k \in DOMAIN matches : PlansOf(k) = {a, b}
           /\ InitiateMatch(p, a, b))
             => /\ last'.err # "Ok"
                /\ matches' = matches
                /\ trips' = trips]_vars

(* C5: the pairing key is the same for (planA, planB) and (planB, planA):  *)
(* at most one Match record references any unordered pair of plans.        *)
C5_OneRecordPerUnorderedPair ==
    \A k1 \in DOMAIN matches, k2 \in DOMAIN matches :
        PlansOf(k1) = PlansOf(k2) => k1 = k2

(* C6: record_match succeeds only when the record's status is Computing    *)
(* and then stores the four scores and the computation identifier and sets *)
(* the status to Completed; in any other status it fails and changes       *)
(* nothing.                                                                *)
C6_RecordOnlyFromComputing ==
    [][\A u \in Authorities, a \in TripKeys, b \in TripKeys,
          r \in MatchResults, c \in ComputationIds :
          (<<a, b>> \in DOMAIN matches /\ RecordMatch(u, <<a, b>>, a, b, r, c))
             => LET m == matches[<<a, b>>]
                IN  IF m.status = "Computing"
                    THEN last'.err = "Ok"
                            => matches'[<<a, b>>] =
                                  [m EXCEPT !.total_score = r.total_score,
                                            !.route_score = r.route_score,
                                            !.date_score = r.date_score,
                                            !.interest_score = r.interest_score,
                                            !.computation_id = c,
                                            !.status = "Completed"]
                    ELSE /\ last'.err # "Ok"
                         /\ matches' = matches
                         /\ trips' = trips]_vars

(* C7: compute_match (submit) succeeds only when the pair's Match record   *)
(* is Pending and moves it to Computing; a submit while Computing fails,   *)
(* so a match never has more than one computation in flight.               *)
C7_SubmitMovesToComputing ==
    [][\A u \in Users, a \in TripKeys, b \in TripKeys :
          (/\ <<a, b>> \in DOMAIN matches
           /\ ComputeMatch(u, a, b)
           /\ last'.err = "Ok")
             => /\ matches[<<a, b>>].status = "Pending"
                /\ \/ matches'[<<a, b>>].status = "Computing"
                   \/ computations'[<<a, b>>].status = "Computing"]_vars

(* C8: accept_match and reject_match succeed only while the record's       *)
(* status is Pending or Completed; in Computing, Mutual, Rejected or       *)
(* Failed each call (on accounts that exist) fails with InvalidMatchStatus *)
(* (the code's InvalidConsentState) and changes no status and no flag.     *)
C8_ConsentOnlyWhilePending ==
    [][\A u \in Users, k \in DOMAIN matches, t \in DOMAIN trips :
          (/\ last'.op \in {"accept_match", "reject_match"}
           /\ AcceptMatch(u, k, t) \/ RejectMatch(u, k, t))
             => /\ last'.err = "Ok"
                      => matches[k].status \in {"Pending", "Completed"}
                /\ matches[k].status \in {"Computing", "Mutual", "Rejected", "Failed"}
                      => /\ last'.err = "InvalidMatchStatus"
                         /\ matches' = matches]_vars

\* A consent call has just failed on a record that is Mutual or Rejected
C8_Witness ==
    /\ last.op \in {"accept_match", "reject_match"}
    /\ last.err = "InvalidMatchStatus"
    /\ \E k \in DOMAIN matches : matches[k].status \in {"Mutual", "Rejected"}

(* C9: a successful reject_match sets the status to Rejected whatever the  *)
(* consent flags are, and Rejected is terminal: no later instruction       *)
(* changes the status of a Rejected record.                                *)
C9_RejectedIsTerminal ==
    [][/\ \A u \in Users, k \in DOMAIN matches, t \in DOMAIN trips :
             (RejectMatch(u, k, t) /\ last'.err = "Ok")
                => matches'[k].status = "Rejected"
       /\ \A k \in DOMAIN matches :
             matches[k].status = "Rejected"
                => k \in DOMAIN matches' /\ matches'[k].status = "Rejected"]_vars

(* C10: an accept_match or reject_match by an identity that owns neither   *)
(* plan of the pair fails and leaves the record's status and both consent  *)
(* flags unchanged; the error is Unauthorized while the record is Pending  *)
(* and InvalidMatchStatus otherwise (the status constraint comes first).   *)
C10_NonOwnerFails ==
    [][\A u \in Users, k \in DOMAIN matches, t \in DOMAIN trips :
          (/\ last'.op \in {"accept_match", "reject_match"}
           /\ OwnsNeither(u, k)
           /\ AcceptMatch(u, k, t) \/ RejectMatch(u, k, t))
             => /\ last'.err # "Ok"
                /\ matches' = matches
                /\ last'.err = IF matches[k].status = "Pending"
                               THEN "Unauthorized"
                               ELSE "InvalidMatchStatus"]_vars

\* C10 as stated: the error is Unauthorized in every status of the record
C10_NonOwnerUnauthorized ==
    [][\A u \in Users, k \in DOMAIN matches, t \in DOMAIN trips :
          (/\ last'.op \in {"accept_match", "reject_match"}
           /\ OwnsNeither(u, k)
           /\ AcceptMatch(u, k, t) \/ RejectMatch(u, k, t))
             => /\ last'.err = "Unauthorized"
                /\ matches' = matches]_vars

\* A consent call has just failed with Unauthorized on a Pending record
\* while a third identity holds a plan of its own
C10_Witness ==
    /\ last.op \in {"accept_match", "reject_match"}
    /\ last.err = "Unauthorized"
    /\ \E k \in DOMAIN matches :
          /\ matches[k].status = "Pending"
          /\ \E t \in DOMAIN trips : OwnsNeither(trips[t].owner, k)

(* C11: a successful accept_match by the owner of plan A sets plan A's     *)
(* consent flag, by the owner of plan B plan B's; it changes nothing else  *)
(* except the status when both flags are then true: the other owner's      *)
(* flag, the four scores, the plan pair and the computation identifier are *)
(* unchanged, and so are every other record and every plan.                *)
C11_AcceptFrame ==
    [][\A u \in Users, k \in DOMAIN matches, t \in DOMAIN trips :
          (/\ last' = Outcome("accept_match", "Ok")
           /\ AcceptMatch(u, k, t))
             => LET m == matches[k]
                    n == matches'[k]
                IN  /\ u = OwnerOfPlan(t)
                    /\ t \in PlansOf(k)
                    /\ t = m.trip_a
                          => /\ n.trip_a_accepted
                             /\ n.trip_b_accepted = m.trip_b_accepted
                    /\ t = m.trip_b
                          => /\ n.trip_b_accepted
                             /\ n.trip_a_accepted = m.trip_a_accepted
                    /\ n.status = IF n.trip_a_accepted /\ n.trip_b_accepted
                                  THEN "Mutual"
                                  ELSE m.status
                    /\ n.total_score = m.total_score
                    /\ n.route_score = m.route_score
                    /\ n.date_score = m.date_score
                    /\ n.interest_score = m.interest_score
                    /\ n.trip_a = m.trip_a
                    /\ n.trip_b = m.trip_b
                    /\ n.computation_id = m.computation_id
                    /\ DOMAIN matches' = DOMAIN matches
                    /\ \A j \in DOMAIN matches \ {k} : matches'[j] = matches[j]
                    /\ trips' = trips]_vars

\* An accept has just succeeded on a record that carries recorded scores
\* and now has exactly one consent flag
C11_Witness ==
    /\ last = Outcome("accept_match", "Ok")
    /\ \E k \in DOMAIN matches :
          /\ matches[k].trip_a_accepted # matches[k].trip_b_accepted
          /\ matches[k].status = "Pending"
          /\ matches[k].total_score > 0
          /\ matches[k].computation_id # 0

\* initiate_match(p, a, b) is the step taken, on two existing plans of one
\* owner
SameOwnerInitiate(p, a, b) ==
    /\ last'.op = "initiate_match"
    /\ a \in DOMAIN trips
    /\ b \in DOMAIN trips
    /\ trips[a].owner = trips[b].owner
    /\ InitiateMatch(p, a, b)

(* C12: initiate_match(planA, planB) fails whenever planA.owner equals     *)
(* planB.owner, creating no Match record and changing neither plan's       *)
(* counter; the error is SameTripMatch (the spec's SelfMatch) when the     *)
(* caller is that owner and Unauthorized when the caller is somebody else  *)
(* (the constraint on trip_a is checked before the handler runs).          *)
C12_SameOwnerFails ==
    [][\A p \in Users, a \in InitiateTrips, b \in InitiateTrips :
          SameOwnerInitiate(p, a, b)
             => /\ last'.err = IF p = trips[a].owner
                               THEN "SameTripMatch"
                               ELSE "Unauthorized"
                /\ matches' = matches
                /\ trips' = trips]_vars

\* C12 as stated: the error is SameTripMatch whoever the caller is
C12_SelfMatch ==
    [][\A p \in Users, a \in InitiateTrips, b \in InitiateTrips :
          SameOwnerInitiate(p, a, b)
             => /\ last'.err = "SameTripMatch"
                /\ matches' = matches
                /\ trips' = trips]_vars

\* An initiate_match has just failed with SameTripMatch while one owner
\* holds two distinct plans
C12_Witness ==
    /\ last = Outcome("initiate_match", "SameTripMatch")
    /\ \E a \in DOMAIN trips, b \in DOMAIN trips :
          a # b /\ trips[a].owner = trips[b].owner

(* C13: initiate_match(planA, planB) fails whenever planA or planB is      *)
(* inactive (deactivated) and creates no Match record, so no record is     *)
(* ever created for a plan that was inactive at creation time.             *)
C13_InactiveInitiateFails ==
    [][\A p \in Users, a \in InitiateTrips, b \in InitiateTrips :
          (/\ last'.op = "initiate_match"
           /\ a \in DOMAIN trips
           /\ b \in DOMAIN trips
           /\ ~trips[a].is_active \/ ~trips[b].is_active
           /\ InitiateMatch(p, a, b))
             => /\ last'.err # "Ok"
                /\ matches' = matches]_vars

(* C14: initiate_match fails with QuotaExceeded whenever it would raise    *)
(* either plan's counter above the ceiling (100), so in every reachable    *)
(* state the counter of every plan, whether it was passed as planA or as   *)
(* planB, is at most the ceiling.                                          *)
C14_CounterWithinQuota ==
    \A t \in DOMAIN trips : trips[t].match_count <= QuotaCeiling

(* C15: a successful initiate_match(planA, planB) creates the Match record *)
(* of the pair with status Pending, both consent flags false and all four  *)
(* scores zero, and increases the counter of planA and of planB by exactly *)
(* one each; no other record and no other plan changes.                    *)
C15_InitiateEffect ==
    [][\A p \in Users, a \in InitiateTrips, b \in InitiateTrips :
          (/\ last' = Outcome("initiate_match", "Ok")
           /\ InitiateMatch(p, a, b))
             => /\ <<a, b>> \notin DOMAIN matches
                /\ DOMAIN matches' = DOMAIN matches \cup {<<a, b>>}
                /\ \A j \in DOMAIN matches : matches'[j] = matches[j]
                /\ LET n == matches'[<<a, b>>]
                   IN  /\ n.trip_a = a
                       /\ n.trip_b = b
                       /\ n.status = "Pending"
                       /\ ~n.trip_a_accepted
                       /\ ~n.trip_b_accepted
                       /\ n.total_score = 0
                       /\ n.route_score = 0
                       /\ n.date_score = 0
                       /\ n.interest_score = 0
                /\ a # b
                /\ DOMAIN trips' = DOMAIN trips
                /\ trips'[a] = [trips[a] EXCEPT !.match_count = @ + 1]
                /\ trips'[b] = [trips[b] EXCEPT !.match_count = @ + 1]
                /\ \A t \in DOMAIN trips \ {a, b} : trips'[t] = trips[t]]_vars

\* An initiate_match has just succeeded: its record is fresh and plan A's
\* counter has moved from 0 to 1 or from 99 to the ceiling
C15_Witness ==
    /\ last = Outcome("initiate_match", "Ok")
    /\ \E k \in DOMAIN matches :
          /\ matches[k].status = "Pending"
          /\ trips[k[1]].match_count \in {1, QuotaCeiling}
          /\ trips[k[2]].match_count > 0

(* C16: record_match leaves the record Completed, or Failed when the       *)
(* computation reports failure, and Failed is terminal: no instruction     *)
(* changes a Failed record.                                                *)
C16_RecordEndsCompletedOrFailed ==
    [][/\ \A u \in Authorities, a \in TripKeys, b \in TripKeys,
             r \in MatchResults, c \in ComputationIds :
             (/\ last' = Outcome("record_match", "Ok")
              /\ RecordMatch(u, <<a, b>>, a, b, r, c))
                => matches'[<<a, b>>].status \in {"Completed", "Failed"}
       /\ \A k \in DOMAIN matches :
             matches[k].status = "Failed"
                => k \in DOMAIN matches' /\ matches'[k] = matches[k]]_vars

\* The status edges of the lifecycle
StatusEdges ==
    { <<"Pending", "Computing">>,
      <<"Computing", "Completed">>,
      <<"Computing", "Failed">>,
      <<"Completed", "Mutual">>,
      <<"Completed", "Rejected">>,
      <<"Pending", "Rejected">> }

(* C17: every change of a Match record's status is one of the edges        *)
(* Pending->Computing, Computing->Completed, Computing->Failed,            *)
(* Completed->Mutual, Completed->Rejected or Pending->Rejected; a record   *)
(* reaches Mutual only from Completed.                                     *)
C17_StatusEdges ==
    [][\A k \in DOMAIN matches :
          (k \in DOMAIN matches' /\ matches'[k].status # matches[k].status)
             => <<matches[k].status, matches'[k].status>> \in StatusEdges]_vars

(* C18: for all valid inputs (any waypoint arrays and counts within the    *)
(* capacity, date ranges with end >= start, any two flag vectors) each of  *)
(* the four outputs of compute_trip_match lies in 0..100.                  *)
C18_ScoresInRange ==
    engine.status = "revealed"
       => \A i \in 1..4 : engine.scores[i] \in 0..100

(* C19: compute_route_similarity is symmetric: for all waypoint arrays     *)
(* (duplicates allowed) and counts, the score of (A, B) equals the score   *)
(* of (B, A).                                                              *)
C19_RouteSymmetric ==
    engine.status = "revealed"
       => engine.scores[1] =
             compute_route_similarity(engine.trip_b.waypoints,
                                      engine.trip_b.waypoint_count,
                                      engine.trip_a.waypoints,
                                      engine.trip_a.waypoint_count)

(* C20: compute_interest_similarity is symmetric: for all pairs of flag    *)
(* vectors the score of (A, B) equals the score of (B, A).                 *)
C20_InterestSymmetric ==
    engine.status = "revealed"
       => engine.scores[3] =
             compute_interest_similarity(engine.trip_b.interests,
                                         engine.trip_a.interests)

\* The circuit has revealed an interest score strictly between 0 and 100
\* for two vectors with different numbers of flags set
C20_Witness ==
    /\ engine.status = "revealed"
    /\ engine.scores[3] \in 1..99
    /\ Cardinality({i \in 1..InterestCapacity : engine.trip_a.interests[i]})
          # Cardinality({i \in 1..InterestCapacity : engine.trip_b.interests[i]})


C22_RouteIdenticalAndEmpty ==
    engine.status = "revealed"
       => LET a == engine.trip_a
              b == engine.trip_b
          IN  /\ (/\ a.waypoints = b.waypoints
                  /\ a.waypoint_count = b.waypoint_count
                  /\ a.waypoint_count \in 1..WaypointCapacity)
                    => engine.scores[1] = 100
              /\ (a.waypoint_count = 0 \/ b.waypoint_count = 0)
                    => engine.scores[1] = 0

\* The circuit ran on two identical full arrays that hold both cells, one
\* of them twice
C22_Witness ==
    /\ engine.status = "revealed"
    /\ engine.trip_a.waypoints = engine.trip_b.waypoints
    /\ engine.trip_a.waypoint_count = WaypointCapacity
    /\ engine.trip_b.waypoint_count = WaypointCapacity
    /\ {engine.trip_a.waypoints[j] : j \in 1..WaypointCapacity} = Cells
    /\ engine.scores[1] = 100


(* C23: the date score is 0 for every pair of disjoint ranges (the smaller *)
(* end is before the larger start) and 100 for every pair of identical     *)
(* ranges (same start, same end).                                          *)
C23_DateDisjointAndIdentical ==
    engine.status = "revealed"
       => LET a == engine.trip_a
              b == engine.trip_b
              overlap_start ==
                  IF a.start_date > b.start_date THEN a.start_date ELSE b.start_date
              overlap_end ==
                  IF a.end_date < b.end_date THEN a.end_date ELSE b.end_date
          IN  /\ overlap_end < overlap_start => engine.scores[2] = 0
              /\ (a.start_date = b.start_date /\ a.end_date = b.end_date)
                    => engine.scores[2] = 100


\* The slots of the interest vector f that are set
FlagsOf(f) == {i \in 1..InterestCapacity : f[i]}

(* C24: the interest score is 100 when neither vector has a flag set, and  *)
(* 0 when both vectors have a flag set and no slot is set in both.         *)
C24_InterestEmptyAndDisjoint ==
    engine.status = "revealed"
       => LET a == FlagsOf(engine.trip_a.interests)
              b == FlagsOf(engine.trip_b.interests)
          IN  /\ (a = {} /\ b = {}) => engine.scores[3] = 100
              /\ (a # {} /\ b # {} /\ a \cap b = {}) => engine.scores[3] = 0

\* The circuit ran on two disjoint vectors that between them set every slot
C24_Witness ==
    /\ engine.status = "revealed"
    /\ FlagsOf(engine.trip_a.interests) # {}
    /\ FlagsOf(engine.trip_b.interests) # {}
    /\ FlagsOf(engine.trip_a.interests) \cap FlagsOf(engine.trip_b.interests) = {}
    /\ FlagsOf(engine.trip_a.interests) \cup FlagsOf(engine.trip_b.interests)
          = 1..InterestCapacity
    /\ engine.scores[3] = 0


(* C25: the route primitive executes the body of its inner loop exactly    *)
(* capacity * capacity times on every input, whatever the counts and the   *)
(* waypoint values are.                                                    *)
C25_ConstantIterations ==
    engine.status = "revealed"
       => engine.comparisons = WaypointCapacity * WaypointCapacity


(* C26: the engine is total: on every input of valid shape the run ends    *)
(* with a result, no primitive divides by zero or aborts; a route union of *)
(* 0, an average duration of 0 and an empty interest union still give a    *)
(* result.                                                                 *)
C26_EngineTotal ==
    engine.status # "panicked"


(* C27: in every reachable state the four scores of every Match record are *)
(* in [0,100]: record_match with a score above 100 fails with InvalidScore *)
(* and leaves the record unchanged.                                        *)
C27_StoredScoresInRange ==
    \A k \in DOMAIN matches :
        /\ matches[k].route_score \in 0..100
        /\ matches[k].date_score \in 0..100
        /\ matches[k].interest_score \in 0..100
        /\ matches[k].total_score \in 0..100


C29_ReferencedPlanStays ==
    [][\A k \in DOMAIN matches :
          \A t \in PlansOf(k) : t \in DOMAIN trips => t \in DOMAIN trips']_vars


(* C30: deactivate_trip on an existing Trip succeeds only for the Trip's   *)
(* owner on an active Trip and then changes only is_active, to false; for  *)
(* any other caller it fails with Unauthorized, for the owner on an        *)
(* inactive Trip with TripNotActive, and a failed call changes nothing.    *)
C30_DeactivateByOwnerOnly ==
    [][\A u \in Users, t \in InitiateTrips :
          (last'.op = "deactivate_trip" /\ DeactivateTrip(u, t)
              /\ t \in DOMAIN trips)
             => /\ last'.err = "Ok"
                   => /\ trips[t].owner = u /\ trips[t].is_active
                      /\ trips' = [trips EXCEPT ![t].is_active = FALSE]
                /\ trips[t].owner # u => last'.err = "Unauthorized"
                /\ (trips[t].owner = u /\ ~trips[t].is_active)
                      => last'.err = "TripNotActive"
                /\ last'.err # "Ok" => trips' = trips
                /\ matches' = matches]_vars

\* C30 as stated: every deactivate_trip on an inactive Trip fails with
\* TripNotActive, whoever calls
C30_InactiveFailsTripNotActive ==
    [][\A u \in Users, t \in InitiateTrips :
          (last'.op = "deactivate_trip" /\ DeactivateTrip(u, t)
              /\ t \in DOMAIN trips /\ ~trips[t].is_active)
             => last'.err = "TripNotActive" /\ trips' = trips]_vars

\* The owner's second deactivate_trip was just refused: the Trip is inactive
C30_Witness ==
    /\ last = Outcome("deactivate_trip", "TripNotActive")
    /\ \E t \in DOMAIN trips : ~trips[t].is_active


C32_MutualIsAbsorbing ==
    [][\A k \in DOMAIN matches :
          matches[k].status = "Mutual"
             => k \in DOMAIN matches' /\ matches'[k].status = "Mutual"]_vars

(* C33: in every reachable state a Match record whose two consent flags    *)
(* are both true has status Mutual.                                        *)
C33_BothFlagsMeanMutual ==
    \A k \in DOMAIN matches :
        (matches[k].trip_a_accepted /\ matches[k].trip_b_accepted)
           => matches[k].status = "Mutual"


\* The intersection_count of the run of compute_route_similarity on the two
\* trips of the engine
EngineIntersection ==
    RouteIntersection(engine.trip_a.waypoints, engine.trip_a.waypoint_count,
                      engine.trip_b.waypoints, engine.trip_b.waypoint_count)

\* The populated cells of a trip whose count is within the capacity
CellsOf(trip) == SubSeq(trip.waypoints, 1, trip.waypoint_count)

(* C34: the intersection count of the route primitive never exceeds the    *)
(* smaller of the two counts, also when an array holds duplicate cells.    *)
C34_IntersectionAtMostMin ==
    engine.status = "revealed"
       => /\ EngineIntersection <= engine.trip_a.waypoint_count
          /\ EngineIntersection <= engine.trip_b.waypoint_count

(* C35: for all arrays and counts within the capacity, duplicates          *)
(* included, the route score of the circuit equals the score of the        *)
(* early-exit reference (break after the first match) on the same cells.   *)
C35_SameAsEarlyExit ==
    (/\ engine.status = "revealed"
     /\ engine.trip_a.waypoint_count <= WaypointCapacity
     /\ engine.trip_b.waypoint_count <= WaypointCapacity)
       => engine.scores[1]
             = confidential_route_similarity(CellsOf(engine.trip_a),
                                             CellsOf(engine.trip_b))


(* C38: in the route primitive the unsigned subtraction                    *)
(* count_a + count_b - intersection_count never underflows, for every      *)
(* count up to 255 and all arrays, and intersection_count * 100 / union    *)
(* fits in 32 bits before it is clamped.                                   *)
C38_UnionDoesNotUnderflow ==
    engine.status = "revealed"
       => LET count_a == engine.trip_a.waypoint_count
              count_b == engine.trip_b.waypoint_count
              union_count == count_a + count_b - EngineIntersection
              union_nonzero == IF union_count = 0 THEN 1 ELSE union_count
              jaccard_percentage == (EngineIntersection * 100) \div union_nonzero
          IN  /\ EngineIntersection <= count_a + count_b
              /\ union_count >= 0
              /\ EngineIntersection * 100 >= 0
              /\ (EngineIntersection * 100) \div (2^16) < 2^16
              /\ jaccard_percentage >= 0
              /\ jaccard_percentage \div (2^16) < 2^16

\* The circuit ran on two arrays of one repeated cell, both with the
\* largest count: every slot of A was consumed
C38_Witness ==
    /\ engine.status = "revealed"
    /\ engine.trip_a.waypoint_count = U8Max
    /\ engine.trip_b.waypoint_count = U8Max
    /\ EngineIntersection = WaypointCapacity


\* A Trip of the Match record at k has been deactivated
HasInactivePlan(k) ==
    \E t \in PlansOf(k) : t \in DOMAIN trips /\ ~trips[t].is_active

\* The scores and the computation id of a Match record
ResultOf(m) ==
    <<m.route_score, m.date_score, m.interest_score, m.total_score, m.computation_id>>

Aggregated(r, d, i) ==
    /\ engine.status = "aggregated"
    /\ engine.route_score = r
    /\ engine.date_score = d
    /\ engine.interest_score = i

(* C37: aggregate_match_score returns 100 for (100,100,100), 0 for (0,0,0) *)
(* and 73 for (80,70,60), the values asserted by its unit test.            *)
C37_UnitTestValues ==
    /\ Aggregated(100, 100, 100) => engine.total_score = 100
    /\ Aggregated(0, 0, 0) => engine.total_score = 0
    /\ Aggregated(80, 70, 60) => engine.total_score = 73

=============================================================================
